---- MODULE Spec2Model ----
(***************************************************************************)
(* Model of Web_App_Version/script.js: the in-memory catalog, the form     *)
(* controller, the renderer and the asynchronous seed load.                *)
(*                                                                         *)
(* The contents of the two form fields are the inputs of the submit        *)
(* listener: they are drawn when the form is submitted and are recorded in *)
(* call; the labels of the form (title, button text) are not modelled.     *)
(*                                                                         *)
(* Text is a sequence of one-character strings so that trim() and          *)
(* escapeHtml() are computed, not assumed.  A JavaScript null is the empty *)
(* tuple and a present value v is the one-element tuple <<v>>.             *)
(***************************************************************************)
EXTENDS Integers, Sequences, FiniteSets, TLC

\* ---------------------------------------------------------------- bounds
MaxItems == 2
MaxId == 3
MaxRemoved == 1

\* ------------------------------------------------------------- constants
Null == <<>>
NameEmptyMsg == "Name field cannot be empty"
DescriptionEmptyMsg == "Description field cannot be empty"
NotFoundMsg == "Item not found"
EmptyCatalogMsg == "No items in catalog. Add your first item above!"
LoadErrorMsg == "Error loading catalog data. Please ensure data.json exists."
InitialMarkup == "initial markup"

WhiteSpace == {" "}

\* What a user types into the name field.
Texts == { <<>>, <<" ">>, <<" ", "a", " ">> }

\* What a user types into the description field (the empty field is covered
\* by the name field: validateInput treats both fields alike).
DescriptionTexts == { <<" ">>, <<"<", " ">> }

\* Variant of Item that stores the two texts in each other's field.
Item_Swapped(i, n, d) == [id |-> i, name |-> d, description |-> n]

Item(i, n, d) == [id |-> i, name |-> n, description |-> d]

\* Contents data.json may have: the parsed object's "items" member, Null
\* when the member is missing.  Ids are pairwise distinct in every seed;
\* names and descriptions are whatever the file holds.
DataJson ==
    { [items |-> Null],
      [items |-> << <<>> >>],
      [items |-> << << Item(1, <<"a">>, <<"<">>) >> >>],
      [items |-> << << Item(-1, <<"a">>, <<"a">>) >> >>],
      [items |-> << << Item(1, <<" ">>, <<"a">>), Item(2, <<"<">>, <<"a">>) >> >>] }

VARIABLES
    catalogData,            \* the store: sequence of items
    editingItemId,          \* Null or <<id>>
    itemsList,              \* list view: [msg, cards]
    itemDetails,            \* detail view content: Null or <<card>>
    detailsDisplay,         \* detailsSection.style.display
    loadPc,                 \* position of the async loadData
    alerts,                 \* alert() messages raised by the last handler
    call,                   \* the handler that ran last, with its arguments
    removedIds,             \* history: ids removed by deleteItem so far
    addedIds                \* history: ids assigned by addItem and not deleted since

vars == << catalogData, editingItemId, itemsList, itemDetails, detailsDisplay,
           loadPc, alerts, call, removedIds, addedIds >>

\* ------------------------------------------------------- pure functions
RECURSIVE trimStart(_)
trimStart(s) ==
    IF s = <<>> THEN <<>>
    ELSE IF Head(s) \in WhiteSpace THEN trimStart(Tail(s)) ELSE s

RECURSIVE trimEnd(_)
trimEnd(s) ==
    IF s = <<>> THEN <<>>
    ELSE IF s[Len(s)] \in WhiteSpace THEN trimEnd(SubSeq(s, 1, Len(s) - 1)) ELSE s

\* Variant of trim that returns its argument as it is.
trim_Identity(s) == s

trim(s) == trimEnd(trimStart(s))

escapeChar(c) ==
    CASE c = "<" -> <<"&", "l", "t", ";">>
      [] c = ">" -> <<"&", "g", "t", ";">>
      [] c = "&" -> <<"&", "a", "m", "p", ";">>
      [] OTHER   -> <<c>>

RECURSIVE escapeHtml(_)
escapeHtml(text) ==
    IF text = <<>> THEN <<>> ELSE escapeChar(Head(text)) \o escapeHtml(Tail(text))

\* Variant of validateAlerts that tests only for the empty string (no trim).
validateAlerts_NoTrim(name, description) ==
    IF name = <<>> THEN << NameEmptyMsg >>
    ELSE IF description = <<>> THEN << DescriptionEmptyMsg >>
    ELSE <<>>

\* validateInput: the alerts it raises; it returns true iff it raises none.
validateAlerts(name, description) ==
    IF name = <<>> \/ trim(name) = <<>> THEN << NameEmptyMsg >>
    ELSE IF description = <<>> \/ trim(description) = <<>> THEN << DescriptionEmptyMsg >>
    ELSE <<>>

validateInput(name, description) == validateAlerts(name, description) = <<>>

Ids(data) == { data[i].id : i \in 1..Len(data) }

MaxOf(S) == CHOOSE m \in S : \A x \in S : x <= m

\* Variant of newId that counts the items instead of taking the maximum id.
newId_LengthPlusOne(data) == Len(data) + 1

\* Variant of newId that fills the lowest free positive id.
newId_FirstFree(data) ==
    CHOOSE n \in 1..(Len(data) + 1) :
        /\ n \notin Ids(data)
        /\ \A m \in 1..(n - 1) : m \in Ids(data)

newId(data) == IF Len(data) > 0 THEN MaxOf(Ids(data)) + 1 ELSE 1

\* Variant of findIndex that falls back to the first position when id is absent.
findIndex_FirstWhenAbsent(data, id) ==
    IF \E i \in 1..Len(data) : data[i].id = id
    THEN CHOOSE i \in 1..Len(data) :
            /\ data[i].id = id
            /\ \A j \in 1..(i - 1) : data[j].id /= id
    ELSE IF Len(data) > 0 THEN 1 ELSE -1

\* Array.prototype.findIndex on item.id === id; positions are 1-based, -1 when absent.
findIndex(data, id) ==
    IF \E i \in 1..Len(data) : data[i].id = id
    THEN CHOOSE i \in 1..Len(data) :
            /\ data[i].id = id
            /\ \A j \in 1..(i - 1) : data[j].id /= id
    ELSE -1

\* Array.prototype.find: Null or <<item>>.
find(data, id) ==
    IF findIndex(data, id) = -1 THEN Null ELSE << data[findIndex(data, id)] >>

\* Variant of splice without the delete count: drops idx and all that follows.
splice_ToEnd(data, idx) == SubSeq(data, 1, idx - 1)

\* splice(itemIndex, 1)
splice(data, idx) == SubSeq(data, 1, idx - 1) \o SubSeq(data, idx + 1, Len(data))

card(item) == [id |-> item.id, name |-> escapeHtml(item.name),
               description |-> escapeHtml(item.description)]

renderList(data) ==
    IF Len(data) = 0
    THEN [msg |-> EmptyCatalogMsg, cards |-> <<>>]
    ELSE [msg |-> "", cards |-> [i \in 1..Len(data) |-> card(data[i])]]

\* if (editingItemId) ...: null and 0 are falsy.
Truthy(e) == e /= Null /\ e[1] /= 0

\* Record of a handler invocation: its name and the arguments it was given.
Call(fn, id, confirmed) ==
    [fn |-> fn, id |-> id, name |-> <<>>, description |-> <<>>, confirmed |-> confirmed]

FormCall(fn, id, name, description) ==
    [fn |-> fn, id |-> id, name |-> name, description |-> description, confirmed |-> FALSE]

\* ----------------------------------------------------------------- Init
Init ==
    /\ catalogData = <<>>
    /\ editingItemId = Null
    /\ itemsList = [msg |-> InitialMarkup, cards |-> <<>>]
    /\ itemDetails = Null
    /\ detailsDisplay \in {"", "none"}
    /\ loadPc = "start"
    /\ alerts = <<>>
    /\ call = Call("script", Null, FALSE)
    /\ removedIds = {}
    /\ addedIds = {}

\* ------------------------------------------------------------- seed load
\* DOMContentLoaded listener: loadData() runs up to its first await.
DOMContentLoaded ==
    /\ loadPc = "start"
    /\ loadPc' = "fetch"
    /\ alerts' = <<>>
    /\ call' = Call("DOMContentLoaded", Null, FALSE)
    /\ UNCHANGED << catalogData, editingItemId, itemsList,
                    itemDetails, detailsDisplay, removedIds, addedIds >>

\* catch (error) { ... itemsList.innerHTML = error paragraph }
catchLoadError ==
    /\ itemsList' = [msg |-> LoadErrorMsg, cards |-> <<>>]
    /\ loadPc' = "failed"
    /\ alerts' = <<>>
    /\ UNCHANGED << catalogData, editingItemId, itemDetails, detailsDisplay, removedIds, addedIds >>

\* await fetch('data.json') settles: fulfilled with response.ok, fulfilled
\* with !response.ok (throws), or rejected.
fetchSettled(outcome) ==
    /\ loadPc = "fetch"
    /\ call' = Call("loadData fetch", Null, FALSE)
    /\ IF outcome = "ok"
       THEN /\ loadPc' = "json"
            /\ alerts' = <<>>
            /\ UNCHANGED << catalogData, editingItemId, itemsList, itemDetails,
                            detailsDisplay, removedIds, addedIds >>
       ELSE catchLoadError

\* await response.json() is fulfilled with data.
jsonResolved(data) ==
    /\ loadPc = "json"
    /\ call' = Call("loadData json", Null, FALSE)
    /\ catalogData' = (IF data.items /= Null THEN data.items[1] ELSE <<>>)
    /\ itemsList' = renderList(catalogData')
    /\ loadPc' = "done"
    /\ alerts' = <<>>
    /\ UNCHANGED << editingItemId, itemDetails, detailsDisplay, removedIds, addedIds >>

\* await response.json() is rejected (the body is not JSON).
jsonRejected ==
    /\ loadPc = "json"
    /\ call' = Call("loadData json", Null, FALSE)
    /\ catchLoadError

\* ------------------------------------------------------- form controller
\* Variant of resetForm that leaves the editing id as it is.
resetFormEditingItemId_Keep == editingItemId

\* resetForm(): the values it leaves in editingItemId and the two fields.
resetFormEditingItemId == Null

resetForm == editingItemId' = resetFormEditingItemId

\* The page is interactive once the script has run and DOMContentLoaded fired.
Interactive == loadPc /= "start"

\* Ids the user can click: the cards of the rendered list carry the ids.
Clickable == { itemsList.cards[i].id : i \in 1..Len(itemsList.cards) }

\* -------------------------------------------------------- CRUD operations
addItem(name, description) ==
    /\ call' = FormCall("addItem", Null, name, description)
    /\ alerts' = validateAlerts(name, description)
    /\ IF ~validateInput(name, description)
       THEN UNCHANGED << catalogData, editingItemId, itemsList, addedIds >>
       ELSE /\ Len(catalogData) < MaxItems
            /\ newId(catalogData) <= MaxId
            /\ catalogData' = Append(catalogData,
                                     Item(newId(catalogData), trim(name), trim(description)))
            /\ itemsList' = renderList(catalogData')
            /\ resetForm
            /\ addedIds' = addedIds \cup {newId(catalogData)}
    /\ UNCHANGED << itemDetails, detailsDisplay, loadPc, removedIds >>

updateItem(id, name, description) ==
    /\ call' = FormCall("updateItem", <<id>>, name, description)
    /\ IF ~validateInput(name, description)
       THEN /\ alerts' = validateAlerts(name, description)
            /\ UNCHANGED << catalogData, editingItemId, itemsList >>
       ELSE IF findIndex(catalogData, id) = -1
       THEN /\ alerts' = << NotFoundMsg >>
            /\ UNCHANGED << catalogData, editingItemId, itemsList >>
       ELSE /\ alerts' = <<>>
            /\ catalogData' = [catalogData EXCEPT ![findIndex(catalogData, id)] =
                                  Item(id, trim(name), trim(description))]
            /\ itemsList' = renderList(catalogData')
            /\ resetForm
    /\ UNCHANGED << itemDetails, detailsDisplay, loadPc, removedIds, addedIds >>

\* itemForm 'submit' listener: routes on the truthiness of editingItemId.
\* name and description are the values the two fields hold when the form is
\* submitted: what the user typed, or what the fields already held.
submit(name, description) ==
    /\ Interactive
    /\ IF Truthy(editingItemId)
       THEN updateItem(editingItemId[1], name, description)
       ELSE addItem(name, description)

editItem(id) ==
    /\ Interactive
    /\ id \in Clickable
    /\ call' = Call("editItem", <<id>>, FALSE)
    /\ IF find(catalogData, id) = Null
       THEN /\ alerts' = << NotFoundMsg >>
            /\ UNCHANGED << editingItemId >>
       ELSE /\ alerts' = <<>>
            /\ editingItemId' = <<id>>
    /\ UNCHANGED << catalogData, itemsList, itemDetails, detailsDisplay, loadPc,
                    removedIds, addedIds >>

viewItemDetails(id) ==
    /\ Interactive
    /\ id \in Clickable
    /\ call' = Call("viewItemDetails", <<id>>, FALSE)
    /\ IF find(catalogData, id) = Null
       THEN /\ alerts' = << NotFoundMsg >>
            /\ UNCHANGED << itemDetails, detailsDisplay >>
       ELSE /\ alerts' = <<>>
            /\ itemDetails' = << card(find(catalogData, id)[1]) >>
            /\ detailsDisplay' = "block"
    /\ UNCHANGED << catalogData, editingItemId, itemsList, loadPc, removedIds, addedIds >>

\* closeDetails(): the display value it sets.
closeDetails == "none"

\* Tail of deleteItem: if (detailsSection.style.display !== 'none') closeDetails();
displayAfterDelete(display, id) ==
    IF display /= "none" THEN closeDetails ELSE display

\* deleteItem(id); confirmed is the answer of the confirm() prompt.
deleteItem(id, confirmed) ==
    /\ Interactive
    /\ id \in Clickable
    /\ call' = Call("deleteItem", <<id>>, confirmed)
    /\ IF ~confirmed
       THEN /\ alerts' = <<>>
            /\ UNCHANGED << catalogData, itemsList, detailsDisplay, removedIds, addedIds >>
       ELSE IF findIndex(catalogData, id) = -1
       THEN /\ alerts' = << NotFoundMsg >>
            /\ UNCHANGED << catalogData, itemsList, detailsDisplay, removedIds, addedIds >>
       ELSE /\ Cardinality(removedIds \cup {id}) <= MaxRemoved
            /\ alerts' = <<>>
            /\ catalogData' = splice(catalogData, findIndex(catalogData, id))
            /\ itemsList' = renderList(catalogData')
            /\ detailsDisplay' = displayAfterDelete(detailsDisplay, id)
            /\ removedIds' = removedIds \cup {id}
            /\ addedIds' = addedIds \ {id}
    /\ UNCHANGED << editingItemId, itemDetails,
                    loadPc >>

\* cancelBtn 'click' listener.
cancel ==
    /\ Interactive
    /\ call' = Call("cancel", editingItemId, FALSE)
    /\ alerts' = <<>>
    /\ resetForm
    /\ UNCHANGED << catalogData, itemsList, itemDetails, detailsDisplay, loadPc,
                    removedIds, addedIds >>

\* closeDetailsBtn 'click' listener.
closeDetailsClick ==
    /\ Interactive
    /\ detailsDisplay /= "none"
    /\ call' = Call("closeDetails", Null, FALSE)
    /\ alerts' = <<>>
    /\ detailsDisplay' = closeDetails
    /\ UNCHANGED << catalogData, editingItemId, itemsList,
                    itemDetails, loadPc, removedIds, addedIds >>

\* ------------------------------------------------------------------ Next
ClickIds == (-1)..MaxId

Next ==
    \/ DOMContentLoaded
    \/ \E outcome \in {"ok", "notok", "reject"} : fetchSettled(outcome)
    \/ \E data \in DataJson : jsonResolved(data)
    \/ jsonRejected
    \/ \E name \in Texts, description \in DescriptionTexts : submit(name, description)
    \/ \E id \in ClickIds : editItem(id)
    \/ \E id \in ClickIds : viewItemDetails(id)
    \/ \E id \in ClickIds, confirmed \in BOOLEAN : deleteItem(id, confirmed)
    \/ cancel
    \/ closeDetailsClick

Spec == Init /\ [][Next]_vars

TypeOK ==
    /\ Len(catalogData) <= MaxItems
    /\ Ids(catalogData) \subseteq ClickIds
    /\ loadPc \in {"start", "fetch", "json", "done", "failed"}
    /\ detailsDisplay \in {"", "none", "block"}

\* ============================================================ properties
Blank(text) == \A i \in 1..Len(text) : text[i] \in WhiteSpace

AddSucceeded == call'.fn = "addItem" /\ alerts' = <<>>
UpdateSucceeded == call'.fn = "updateItem" /\ alerts' = <<>>
Loading == loadPc \in {"fetch", "json"}
LastItem(data) == data[Len(data)]

\* C1: once an id has been removed by a confirmed deleteItem, no later
\* successful addItem assigns that id to a new item.
C1_IdsNeverReused ==
    [][AddSucceeded => LastItem(catalogData').id \notin removedIds]_vars

\* C2: while loadData is pending (between DOMContentLoaded and the
\* assignment of the loaded items), no addItem, updateItem or deleteItem
\* changes the store.
C2_NoMutationWhileLoading ==
    [][(Loading /\ call'.fn \in {"addItem", "updateItem", "deleteItem"})
         => catalogData' = catalogData]_vars

\* C3: in every reachable state the ids in the store are pairwise distinct
\* (every seed of DataJson has pairwise distinct ids).
C3_DistinctIds ==
    \A i, j \in 1..Len(catalogData) :
        i /= j => catalogData[i].id /= catalogData[j].id

\* C3 witness: two items in the store, the second added after a delete.
C3_Witness ==
    /\ Len(catalogData) = 2
    /\ removedIds /= {}
    /\ call.fn = "addItem"
    /\ alerts = <<>>

\* C4: a successful addItem appends one item whose id is 1 when the store
\* was empty and otherwise is one more than an existing id and greater than
\* every existing id (so ids only grow along a run of adds).
C4_NextIdIsMaxPlusOne ==
    [][AddSucceeded =>
         /\ Len(catalogData') = Len(catalogData) + 1
         /\ catalogData = <<>> => LastItem(catalogData').id = 1
         /\ catalogData /= <<>> =>
              /\ LastItem(catalogData').id - 1 \in Ids(catalogData)
              /\ \A x \in Ids(catalogData) : x < LastItem(catalogData').id]_vars

\* C4 witness: Add, Add, Delete(1), Add on the empty store: the third add got id 3.
C4_Witness ==
    /\ call.fn = "addItem"
    /\ alerts = <<>>
    /\ removedIds = {1}
    /\ Len(catalogData) = 2
    /\ catalogData[1].id = 2
    /\ catalogData[2].id = 3

\* C5: addItem or updateItem with a blank name raises exactly the empty-name
\* alert, otherwise with a blank description exactly the empty-description
\* alert; in both cases the store is unchanged.
C5_ValidationFailureNeverMutates ==
    [][call'.fn \in {"addItem", "updateItem"} =>
         /\ Blank(call'.name) =>
              (alerts' = << NameEmptyMsg >> /\ catalogData' = catalogData)
         /\ (~Blank(call'.name) /\ Blank(call'.description)) =>
              (alerts' = << DescriptionEmptyMsg >> /\ catalogData' = catalogData)]_vars

\* C5 witness: an update with a whitespace-only name was rejected.
C5_Witness ==
    /\ call.fn = "updateItem"
    /\ call.name = <<" ">>
    /\ alerts = << NameEmptyMsg >>
    /\ catalogData /= <<>>

UpdateOfAbsentId == call'.fn = "updateItem" /\ call'.id[1] \notin Ids(catalogData)

\* C6 (as stated): updateItem with an id absent from the store raises the
\* not-found alert and leaves the store unchanged, whatever name and
\* description it is given.
C6_UpdateAbsentSignalsNotFound ==
    [][UpdateOfAbsentId =>
         (alerts' = << NotFoundMsg >> /\ catalogData' = catalogData)]_vars

\* C6 (amended): updateItem with an id absent from the store leaves the
\* store unchanged; it raises the not-found alert when name and description
\* are both non-blank, and the validation alert of the first blank field
\* otherwise.
C6_UpdateAbsentValidatedFirst ==
    [][UpdateOfAbsentId =>
         /\ catalogData' = catalogData
         /\ alerts' = (IF Blank(call'.name) THEN << NameEmptyMsg >>
                       ELSE IF Blank(call'.description) THEN << DescriptionEmptyMsg >>
                       ELSE << NotFoundMsg >>)]_vars

\* C6 witness: an update of a deleted id, with valid fields, on a non-empty store.
C6_Witness ==
    /\ call.fn = "updateItem"
    /\ call.id[1] \notin Ids(catalogData)
    /\ ~Blank(call.name) /\ ~Blank(call.description)
    /\ alerts = << NotFoundMsg >>
    /\ catalogData /= <<>>

\* C7: an id leaves the store only in a deleteItem step whose confirm()
\* returned true, and a declined deleteItem changes neither the store, the
\* editing mode nor the detail view and raises no alert.
C7_NoRemovalWithoutConfirmation ==
    [][/\ (Ids(catalogData) \ Ids(catalogData') /= {}) =>
             (call'.fn = "deleteItem" /\ call'.confirmed)
       /\ (call'.fn = "deleteItem" /\ ~call'.confirmed) =>
             /\ UNCHANGED << catalogData, editingItemId, itemDetails, detailsDisplay >>
             /\ alerts' = <<>>]_vars

\* C8: no stored item has a blank name or a blank description.
C8_NoBlankFields ==
    \A i \in 1..Len(catalogData) :
        ~Blank(catalogData[i].name) /\ ~Blank(catalogData[i].description)

\* C9: editingItemId starts null; a successful addItem, a successful
\* updateItem and cancel set it to null; editItem(id) for an id in the store
\* sets it to id; every other step leaves it unchanged.
C9_ModeMachine ==
    /\ editingItemId = Null
    /\ [][IF AddSucceeded \/ UpdateSucceeded \/ call'.fn = "cancel"
          THEN editingItemId' = Null
          ELSE IF call'.fn = "editItem" /\ call'.id[1] \in Ids(catalogData)
          THEN editingItemId' = call'.id
          ELSE editingItemId' = editingItemId]_vars

\* C9 witness: a successful update brought the mode back to Creating.
C9_Witness ==
    /\ call.fn = "updateItem"
    /\ alerts = <<>>
    /\ editingItemId = Null
    /\ call.id[1] \in Ids(catalogData)

\* C10: when a failed seed load has just been handled, the store is empty
\* and the list view shows the load-failure message; the load never leaves
\* the failed position again.
C10_LoadFailureLeavesEmptyStore ==
    /\ []((loadPc = "failed" /\ call.fn \in {"loadData fetch", "loadData json"}) =>
             (catalogData = <<>> /\ itemsList = [msg |-> LoadErrorMsg, cards |-> <<>>]))
    /\ [][loadPc = "failed" => loadPc' = "failed"]_vars

\* The text between the first and the last non-whitespace character.
Strip(text) ==
    IF Blank(text) THEN <<>>
    ELSE LET solid == { i \in 1..Len(text) : text[i] \notin WhiteSpace }
             first == CHOOSE i \in solid : \A j \in solid : i <= j
             last  == CHOOSE i \in solid : \A j \in solid : j <= i
         IN  SubSeq(text, first, last)

\* C11: after a successful addItem(name, description) exactly one item of
\* the store carries the id of the appended item, it is the last element,
\* and its name and description are the inputs without their leading and
\* trailing whitespace.
C11_AddRoundTrip ==
    [][AddSucceeded =>
         /\ Len(catalogData') = Len(catalogData) + 1
         /\ Cardinality({ i \in 1..Len(catalogData') :
                            catalogData'[i].id = LastItem(catalogData').id }) = 1
         /\ find(catalogData', LastItem(catalogData').id) = << LastItem(catalogData') >>
         /\ LastItem(catalogData').name = Strip(call'.name)
         /\ LastItem(catalogData').description = Strip(call'.description)]_vars

\* C11 witness: an add whose inputs carried surrounding whitespace, appended
\* behind an existing item.
C11_Witness ==
    /\ call.fn = "addItem"
    /\ alerts = <<>>
    /\ Len(catalogData) = 2
    /\ call.name /= Strip(call.name)
    /\ call.description /= Strip(call.description)
    /\ LastItem(catalogData).name = <<"a">>
    /\ LastItem(catalogData).description = <<"<">>

DeleteSucceeded ==
    /\ call'.fn = "deleteItem"
    /\ call'.confirmed
    /\ call'.id[1] \in Ids(catalogData)

\* data without the items whose id is id, the others in their order.
RECURSIVE Without(_, _)
Without(data, id) ==
    IF data = <<>> THEN <<>>
    ELSE IF Head(data).id = id THEN Without(Tail(data), id)
    ELSE << Head(data) >> \o Without(Tail(data), id)

DetailOpen == detailsDisplay = "block" /\ itemDetails /= Null
DetailShows(id) == DetailOpen /\ itemDetails[1].id = id

\* C13: a successful deleteItem(id) closes the detail view when it shows
\* item id, and leaves it open when it shows another item.
C13_DeleteClosesOnlyItsOwnDetail ==
    [][DeleteSucceeded =>
         /\ DetailShows(call'.id[1]) => detailsDisplay' = "none"
         /\ (DetailOpen /\ ~DetailShows(call'.id[1])) => detailsDisplay' = "block"]_vars

\* C14: editItem, cancel, viewItemDetails and closeDetails leave the store
\* as it is, and cancel sets the mode to Creating; so editItem(id) followed
\* by cancel ends in Creating with the store it started from.
C14_EditCancelViewKeepStore ==
    [][/\ call'.fn \in {"editItem", "cancel", "viewItemDetails", "closeDetails"}
            => catalogData' = catalogData
       /\ call'.fn = "cancel" => editingItemId' = Null]_vars

\* C14 witness: cancel was clicked while an item of the store was being edited.
C14_Witness ==
    /\ call.fn = "cancel"
    /\ call.id /= Null
    /\ call.id[1] \in Ids(catalogData)
    /\ editingItemId = Null

\* C15: a successful updateItem(id, name, description) keeps the length of
\* the store, puts the stripped inputs into the item with that id, which
\* keeps its id and position, and leaves every other item as it was.
C15_UpdateReplacesOnlyTarget ==
    [][UpdateSucceeded =>
         /\ Len(catalogData') = Len(catalogData)
         /\ \E i \in 1..Len(catalogData) : catalogData[i].id = call'.id[1]
         /\ \A i \in 1..Len(catalogData) :
              IF catalogData[i].id = call'.id[1]
              THEN catalogData'[i] = [id |-> call'.id[1],
                                      name |-> Strip(call'.name),
                                      description |-> Strip(call'.description)]
              ELSE catalogData'[i] = catalogData[i]]_vars

\* C15 witness: the second seed item was updated in place, the first kept.
C15_Witness ==
    /\ call.fn = "updateItem"
    /\ alerts = <<>>
    /\ call.id = <<2>>
    /\ removedIds = {}
    /\ Len(catalogData) = 2
    /\ catalogData[1] = [id |-> 1, name |-> <<" ">>, description |-> <<"a">>]
    /\ catalogData[2] = [id |-> 2, name |-> <<"a">>, description |-> <<"<">>]

\* C16: a submit while editingItemId holds an id, whatever integer it is,
\* calls updateItem with that id and adds no item; a submit while
\* editingItemId is null calls addItem.
C16_SubmitRoutedByMode ==
    [][call'.fn \in {"addItem", "updateItem"} =>
         IF editingItemId /= Null
         THEN /\ call'.fn = "updateItem"
              /\ call'.id = editingItemId
              /\ Len(catalogData') = Len(catalogData)
         ELSE call'.fn = "addItem"]_vars

\* The text a browser displays for escaped markup: entities decoded.
RECURSIVE unescapeHtml(_)
unescapeHtml(markup) ==
    IF markup = <<>> THEN <<>>
    ELSE IF Len(markup) >= 4 /\ SubSeq(markup, 1, 4) = <<"&", "l", "t", ";">>
    THEN <<"<">> \o unescapeHtml(SubSeq(markup, 5, Len(markup)))
    ELSE IF Len(markup) >= 4 /\ SubSeq(markup, 1, 4) = <<"&", "g", "t", ";">>
    THEN <<">">> \o unescapeHtml(SubSeq(markup, 5, Len(markup)))
    ELSE IF Len(markup) >= 5 /\ SubSeq(markup, 1, 5) = <<"&", "a", "m", "p", ";">>
    THEN <<"&">> \o unescapeHtml(SubSeq(markup, 6, Len(markup)))
    ELSE << Head(markup) >> \o unescapeHtml(Tail(markup))

\* The card displays this item.
CardShows(c, item) ==
    /\ c.id = item.id
    /\ unescapeHtml(c.name) = item.name
    /\ unescapeHtml(c.description) = item.description

\* The list view displays the store: one card per item in store order, or
\* the empty-catalog message.
ListShowsStore ==
    IF catalogData = <<>>
    THEN itemsList = [msg |-> EmptyCatalogMsg, cards |-> <<>>]
    ELSE /\ itemsList.msg = ""
         /\ Len(itemsList.cards) = Len(catalogData)
         /\ \A i \in 1..Len(catalogData) : CardShows(itemsList.cards[i], catalogData[i])

LoadSucceeded == loadPc = "json" /\ loadPc' = "done"

\* After a successful add, update, delete or seed load the list view
\* displays the store.
ListShowsStoreAfterMutation ==
    [][(AddSucceeded \/ UpdateSucceeded \/ DeleteSucceeded \/ LoadSucceeded)
         => ListShowsStore']_vars

\* C17: after every successful add, update, delete and seed load the list
\* view displays the store, and in no state with a non-empty store does the
\* list view display anything else.
C17_ListViewIsProjection ==
    /\ ListShowsStoreAfterMutation
    /\ [](catalogData /= <<>> => ListShowsStore)

\* C18: whenever editingItemId holds an id, an item with that id is in the
\* store, and a submit with non-blank fields in that mode updates the item
\* and sets the mode back to Creating.
C18_EditedItemExists ==
    /\ [](editingItemId /= Null => editingItemId[1] \in Ids(catalogData))
    /\ [][(/\ editingItemId /= Null
           /\ call'.fn \in {"addItem", "updateItem"}
           /\ ~Blank(call'.name)
           /\ ~Blank(call'.description))
          => (UpdateSucceeded /\ editingItemId' = Null)]_vars

\* C19: every id assigned by a successful addItem and not removed by a
\* confirmed deleteItem since is the id of an item of the store.
C19_AddedItemsStay == addedIds \subseteq Ids(catalogData)

\* C20: whenever the detail view is open, the id, name and description it
\* displays are those of an item of the store.
C20_DetailShowsStoredItem ==
    DetailOpen => \E i \in 1..Len(catalogData) : CardShows(itemDetails[1], catalogData[i])

====
